---- MODULE Spec2Model ----
(***************************************************************************)
(* Model of the personal API token scheme, src/src/Schemes/Api.js          *)
(* (class ApiScheme): generate(), attempt(), clientLogin(), check(),       *)
(* loginIfCan(), listTokensForUser(); and of the session authenticator     *)
(* that src/adonis-typings/auth.ts declares (SessionDriverContract,        *)
(* ProvidersContract), whose behaviour is taken from spec.md sections 4.3, *)
(* 4.4 and 5.                                                              *)
(*                                                                         *)
(* Strings are sequences of one-character strings over Alphabet, so that   *)
(* String.split / Array.join / template literals are computed as the code  *)
(* computes them.  The collaborators that are not part of Api.js (the      *)
(* Encryption provider, the serializer / TokenStore, getAuthHeader of the  *)
(* base class) are modelled from their description in spec.md section 6.   *)
(***************************************************************************)
EXTENDS Integers, Sequences, FiniteSets, TLC

(***************************************************************************)
(* Bounds                                                                  *)
(***************************************************************************)
MaxGen == 1
MaxReqs == 2
MaxCalls == 2

(***************************************************************************)
(* Values                                                                  *)
(***************************************************************************)
Alphabet == <<"a", "b", "1", "2", ":", "~", "_">>

\* const DELIMITER = ":~~:"
DELIMITER == <<":", "~", "~", ":">>

\* the separator of the wire format, token.split('_')
UNDERSCORE == <<"_">>

\* JS undefined / null of a string-valued expression
Undefined == <<"?undefined">>

\* the value getAuthHeader returns when neither header nor input is present
NoToken == <<>>

\* this.user = null
NoUser == 0

\* users are identified by user[this.primaryKey]; 0 is the (falsy) key of a
\* user that is not persisted
Users == {0, 1, 2}

\* _.get(this.apiOptions, 'group', null): null, or a group name
NoGroup == <<>>
Groups == {<<"g">>, <<"h">>}

\* the identifier `group` of Api.js line 188 is declared nowhere in the
\* module: it resolves in the global scope of the host process
Unbound == <<"?unbound">>

\* the tokenType arguments of generate(); token types with a '_' are left to
\* SpecCodec
TokenTypes == {<<>>, <<"a">>}
\* the environment arguments of generate(); <<"b">> is the environment a
\* client rewrites a token to (Relabelled)
Environments == {<<>>, <<"a">>, <<"a", "_", "b">>}

\* the defaults of generate(user, tokenType = 'api', environment = 'live'),
\* in the one-letter names of TokenTypes and Environments
DefaultTokenType == <<"a">>
DefaultEnvironment == <<"a">>

\* the type listTokensForUser asks the TokenStore for, 'api_token' (line 266)
ListedTokenType == <<"a", "_", "t">>

\* a null `user` argument (`!user` at line 262); the users of Users are
\* objects, with or without a primary key
Null == -1

(***************************************************************************)
(* String primitives                                                       *)
(***************************************************************************)
\* String.prototype.indexOf: first position of d in s, 0 when absent
IndexOf(s, d) ==
  LET hits == {i \in 1..(Len(s) - Len(d) + 1) : SubSeq(s, i, i + Len(d) - 1) = d}
  IN IF hits = {} THEN 0 ELSE CHOOSE i \in hits : \A j \in hits : i <= j

\* String.prototype.split with a non-empty separator
RECURSIVE Split(_, _)
Split(s, d) ==
  LET i == IndexOf(s, d)
  IN IF i = 0 THEN <<s>>
     ELSE <<SubSeq(s, 1, i - 1)>> \o Split(SubSeq(s, i + Len(d), Len(s)), d)

\* Array.prototype.join("")
RECURSIVE Join(_)
Join(parts) ==
  IF parts = <<>> THEN <<>> ELSE Head(parts) \o Join(Tail(parts))

\* String(userId) inside the template literal `${userId}${DELIMITER}...`
ToStr(n) == IF n = 1 THEN <<"1">> ELSE IF n = 2 THEN <<"2">> ELSE <<"0">>

\* String.prototype.includes('_')
Includes(s, d) == IndexOf(s, d) # 0

(***************************************************************************)
(* Encryption provider (this.Encryption): encrypt(str) -> str,             *)
(* decrypt(str) -> str, failing on a tampered ciphertext.  A substitution  *)
(* over Alphabet followed by one checksum character: injective, every      *)
(* single-character change of a ciphertext is detected, and a ciphertext   *)
(* may contain any character of Alphabet.                                  *)
(***************************************************************************)
Pos(c) == CHOOSE i \in 1..Len(Alphabet) : Alphabet[i] = c

EncChar(c) == Alphabet[((Pos(c) + 2) % Len(Alphabet)) + 1]

DecChar(c) == Alphabet[((Pos(c) + Len(Alphabet) - 4) % Len(Alphabet)) + 1]

RECURSIVE SumPos(_)
SumPos(s) == IF s = <<>> THEN 0 ELSE Pos(Head(s)) + SumPos(Tail(s))

Mac(s) == Alphabet[(SumPos(s) % Len(Alphabet)) + 1]

Encrypt(s) == [i \in 1..Len(s) |-> EncChar(s[i])] \o <<Mac(s)>>

\* the outcome of decrypt on a ciphertext that does not authenticate
DecryptFail == <<"?fail">>

Decrypt(c) ==
  IF Len(c) = 0 THEN DecryptFail
  ELSE LET plain == [i \in 1..(Len(c) - 1) |-> DecChar(c[i])]
       IN IF Mac(plain) = c[Len(c)] THEN plain ELSE DecryptFail

(***************************************************************************)
(* uuid.v4().replace(/-/g, ''): the n-th value drawn is distinct from      *)
(* every value drawn before it                                             *)
(***************************************************************************)
RECURSIVE Uuid(_)
Uuid(n) ==
  LET d == IF n % 2 = 0 THEN <<"a">> ELSE <<"b">>
  IN IF n < 2 THEN d ELSE Uuid(n \div 2) \o d

(***************************************************************************)
(* State                                                                   *)
(***************************************************************************)
VARIABLES
  globalGroup,  \* what the free identifier `group` (line 188) resolves to
  store,        \* the TokenStore: records saved by saveToken
  uuids,        \* number of uuid values drawn so far
  genCalls,     \* number of generate() / attempt() / clientLogin() calls so far
  gen,          \* the generate() call in flight, suspended at `await saveToken`
  genResult,    \* how the last generate() call ended
  returned,     \* wire tokens handed to callers, with what they were issued for
  reqs,         \* number of requests created so far
  req,          \* the ApiScheme instance of the current request
  last,         \* the last check() / loginIfCan() / listTokensForUser() call of the request
  codec,        \* a wire token composed as generate() does, split as check() does
  client        \* whether the generate() call in flight was made by clientLogin()

\* the state of the session authenticator and of its provider
VARIABLES
  remember,     \* the provider's users: the remember-me token of each account
  tokens,       \* number of remember-me tokens issued so far
  history,      \* what became of each remember-me token issued
  sessions,     \* the ids that a live session identifier is bound to
  started,      \* number of session requests started so far
  sreq          \* the SessionAuthenticator instance of each request in progress

sessVars == <<remember, tokens, history, sessions, started, sreq>>

apiVars == <<client, codec, globalGroup, store, uuids, genCalls, gen, genResult,
             returned, reqs, req, last>>

vars == <<sessVars, client, codec, globalGroup, store, uuids, genCalls, gen, genResult,
          returned, reqs, req, last>>

(***************************************************************************)
(* TokenStore (this._serializerInstance)                                   *)
(***************************************************************************)
\* columns = {} : the record gets no group / environment column from the call
NoColumns == [group |-> Undefined, environment |-> Undefined]

\* the `columns` arguments a caller passes to generate()
Columns(cfg, environment) ==
  {NoColumns, [group |-> cfg, environment |-> environment]}

\* saveToken(user, plainToken, tokenType, columns)
saveToken(st, user, plainToken, tokenType, columns) ==
  st \cup {[user |-> user, token |-> plainToken, type |-> tokenType,
            group |-> columns.group, environment |-> columns.environment]}

\* findByToken(plainToken, tokenType, {[foreignKey]: userId, group, environment})
\* returns the user of a matching record, null when there is none
findByToken(plainToken, tokenType, userId, grp, environment) ==
  LET hits == {r \in store : /\ r.token = plainToken
                             /\ r.type = tokenType
                             /\ ToStr(r.user) = userId
                             /\ r.group = grp
                             /\ r.environment = environment}
  IN IF hits = {} THEN NoUser ELSE (CHOOSE r \in hits : TRUE).user

\* listTokens(user, type): the records of the user that are of the type
listTokens(st, user, type) == {r \in st : r.user = user /\ r.type = type}

(***************************************************************************)
(* The request: getAuthHeader(['bearer', 'token']) of the base class       *)
(***************************************************************************)
NoHeader == <<>>

\* the value of an Authorization header: "<scheme> <token>"
Authorization(scheme, token) == <<scheme, " ">> \o token

\* String.prototype.toLowerCase on a scheme name
ToLower(scheme) ==
  IF scheme = "Bearer" THEN "bearer"
  ELSE IF scheme = "Token" THEN "token"
  ELSE IF scheme = "Basic" THEN "basic"
  ELSE scheme

AuthTypes == {"bearer", "token"}

\* the token of an Authorization header of an accepted scheme, else the
\* `token` input field, else null
getAuthHeader(authorization, input, authTypes) ==
  IF authorization # NoHeader
       /\ Len(authorization) >= 2
       /\ ToLower(authorization[1]) \in authTypes
       /\ authorization[2] = " "
  THEN SubSeq(authorization, 3, Len(authorization))
  ELSE input

(***************************************************************************)
(* ApiScheme.generate                                                     *)
(***************************************************************************)
\* the exception class of every `throw` of generate(): GE.RuntimeException
\* (lines 113, 117, 121, 125 and 134)
RuntimeException == "RuntimeException"

NoError == [class |-> "none", message |-> "none"]

\* lines 112-135: the first validation that fails, NoError when none does
generateErrorNoUnderscoreCheck(user, tokenType, environment, cfg) ==
  IF Len(tokenType) = 0
    THEN [class |-> RuntimeException, message |-> "Token type cannot be empty"]
  ELSE IF cfg = NoGroup \/ Len(cfg) = 0
    THEN [class |-> RuntimeException, message |-> "Token group cannot be empty"]
  ELSE IF Len(environment) = 0
    THEN [class |-> RuntimeException, message |-> "Token environment cannot be empty"]
  ELSE IF user = 0
    THEN [class |-> RuntimeException, message |-> "Primary key value is missing for user"]
  ELSE NoError

generateError(user, tokenType, environment, cfg) ==
  IF Len(tokenType) = 0
    THEN [class |-> RuntimeException, message |-> "Token type cannot be empty"]
  ELSE IF cfg = NoGroup \/ Len(cfg) = 0
    THEN [class |-> RuntimeException, message |-> "Token group cannot be empty"]
  ELSE IF Len(environment) = 0
    THEN [class |-> RuntimeException, message |-> "Token environment cannot be empty"]
  ELSE IF Includes(environment, UNDERSCORE)
    THEN [class |-> RuntimeException,
          message |-> "Token environment cannot contain underscores"]
  ELSE IF user = 0
    THEN [class |-> RuntimeException, message |-> "Primary key value is missing for user"]
  ELSE NoError

\* lines 144-145: the wire token
WireToken(userId, plainToken, tokenType, environment) ==
  tokenType \o UNDERSCORE \o environment \o UNDERSCORE
    \o Encrypt(ToStr(userId) \o DELIMITER \o plainToken)

Idle == [pc |-> "idle", user |-> 0, tokenType |-> <<>>, environment |-> <<>>,
         group |-> NoGroup, columns |-> NoColumns, plainToken |-> <<>>]

\* a generate() call that has ended: its arguments, its error, its return value
Ended(error, token) ==
  [status |-> IF error = NoError THEN "returned" ELSE "threw",
   error |-> error, token |-> token]

\* a clientLogin() call that has ended: it returns nothing, and has called
\* headerFn('authorization', `Bearer ${token}`) (line 293)
HeaderSet(token) ==
  [status |-> "headerSet", error |-> NoError, token |-> token,
   header |-> Authorization("Bearer", token)]

\* the mutant of generate: the wire token is built and returned, and the
\* record is saved afterwards
generateReturnsBeforeSave(user, tokenType, environment, cfg, columns) ==
  /\ reqs > 0
  /\ cfg = req.group
  /\ gen.pc = "idle"
  /\ genCalls < MaxGen
  /\ genCalls' = genCalls + 1
  /\ LET error == generateError(user, tokenType, environment, cfg)
         plainToken == Uuid(uuids)
         token == WireToken(user, plainToken, tokenType, environment)
     IN IF error # NoError
        THEN /\ genResult' = Ended(error, NoToken)
             /\ UNCHANGED <<gen, uuids, returned>>
        ELSE /\ uuids' = uuids + 1
             /\ gen' = [pc |-> "saving", user |-> user, tokenType |-> tokenType,
                        environment |-> environment, group |-> cfg,
                        columns |-> columns, plainToken |-> plainToken]
             /\ genResult' = Ended(NoError, token)
             /\ returned' = returned \cup
                  {[token |-> token, user |-> user, tokenType |-> tokenType,
                    environment |-> environment, group |-> cfg,
                    plainToken |-> plainToken]}
  /\ UNCHANGED <<sessVars, codec, globalGroup, store, reqs, req, last>>

\* generate(user, tokenType, environment, columns) on the instance of the
\* current request, whose this.group is cfg; lines 111-138, up to the
\* `await saveToken(...)`
generate(user, tokenType, environment, cfg, columns) ==
  /\ reqs > 0
  /\ cfg = req.group
  /\ gen.pc = "idle"
  /\ genCalls < MaxGen
  /\ genCalls' = genCalls + 1
  /\ LET error == generateError(user, tokenType, environment, cfg)
     IN IF error # NoError
        THEN /\ genResult' = Ended(error, NoToken)
             /\ UNCHANGED <<gen, uuids>>
        ELSE /\ uuids' = uuids + 1
             /\ gen' = [pc |-> "saving", user |-> user, tokenType |-> tokenType,
                        environment |-> environment, group |-> cfg,
                        columns |-> columns, plainToken |-> Uuid(uuids)]
             /\ genResult' = [Ended(NoError, NoToken) EXCEPT !.status = "pending"]
  /\ UNCHANGED <<sessVars, codec, globalGroup, store, returned, reqs, req, last>>

\* the error of a saveToken() promise that rejects (the database failed)
StoreError == [class |-> "StoreError", message |-> "saveToken rejected"]

\* lines 138-147 when saveToken resolves: the record is in the store, then
\* the payload is encrypted and the wire token composed and returned
generateSaved ==
  /\ gen.pc = "saving"
  /\ store' = saveToken(store, gen.user, gen.plainToken, gen.tokenType, gen.columns)
  /\ LET token == WireToken(gen.user, gen.plainToken, gen.tokenType, gen.environment)
     IN \* line 293, when the caller is clientLogin: headerFn sets the header
        /\ genResult' = IF client THEN HeaderSet(token) ELSE Ended(NoError, token)
        /\ returned' = returned \cup
             {[token |-> token, user |-> gen.user, tokenType |-> gen.tokenType,
               environment |-> gen.environment, group |-> gen.group,
               plainToken |-> gen.plainToken]}
  /\ gen' = Idle
  /\ client' = FALSE
  /\ UNCHANGED <<sessVars, codec, globalGroup, uuids, genCalls, reqs, req, last>>

\* line 138 when saveToken rejects: the await throws, lines 144-147 never run
generateSaveFailed ==
  /\ gen.pc = "saving"
  /\ genResult' = Ended(StoreError, NoToken)
  /\ gen' = Idle
  /\ client' = FALSE
  /\ UNCHANGED <<sessVars, codec, globalGroup, store, uuids, genCalls, returned, reqs, req, last>>

(***************************************************************************)
(* ApiScheme.attempt and ApiScheme.clientLogin                             *)
(***************************************************************************)
\* the credentials a caller passes to attempt(): uid 3 has no account
Uids == {1, 2, 3}
Passwords == {"right", "wrong"}

\* validate(uid, password, true) of the base class: the user found by uid
\* whose password verifies, NoUser when the lookup or the password fails
validate(uid, password) ==
  IF uid \in Users \ {0} /\ password = "right" THEN uid ELSE NoUser

\* the one error of a failed validate()
AuthenticationFailedError ==
  [class |-> "AuthenticationFailedError", message |-> "Invalid credentials"]

\* attempt(uid, password), lines 84-87: validate, then generate(user)
attempt(uid, password, cfg) ==
  /\ client' = client
  /\ LET user == validate(uid, password)
     IN IF user = NoUser
        THEN /\ reqs > 0
             /\ cfg = req.group
             /\ gen.pc = "idle"
             /\ genCalls < MaxGen
             /\ genCalls' = genCalls + 1
             /\ genResult' = Ended(AuthenticationFailedError, NoToken)
             /\ UNCHANGED <<sessVars, codec, globalGroup, store, uuids, gen, returned,
                            reqs, req, last>>
        ELSE generate(user, DefaultTokenType, DefaultEnvironment, cfg, NoColumns)

\* clientLogin(headerFn, sessionFn, tokenOrUser) with a user, lines 288-292:
\* generate(tokenOrUser); headerFn is called when generate has returned
clientLoginUser(user, cfg) ==
  /\ generate(user, DefaultTokenType, DefaultEnvironment, cfg, NoColumns)
  /\ client' = (generateError(user, DefaultTokenType, DefaultEnvironment, cfg) = NoError)

\* clientLogin(headerFn, sessionFn, tokenOrUser) with a string, lines 289
\* and 293: no token is generated, headerFn sets the header
clientLoginToken(token) ==
  /\ reqs > 0
  /\ gen.pc = "idle"
  /\ genCalls < MaxGen
  /\ genCalls' = genCalls + 1
  /\ genResult' = HeaderSet(token)
  /\ UNCHANGED <<sessVars, client, codec, globalGroup, store, uuids, gen, returned,
                 reqs, req, last>>

(***************************************************************************)
(* ApiScheme.check and ApiScheme.loginIfCan                                *)
(***************************************************************************)
\* what a call did: its result (a return value or the class of the error it
\* threw), this.user afterwards, how many times it read the header, whether
\* it decrypted and whether it queried the TokenStore
Outcome(result, user, headerReads, decrypted, queried) ==
  [result |-> result, user |-> user, headerReads |-> headerReads,
   decrypted |-> decrypted, queried |-> queried]

\* lines 187 and 197: the token split on '_', the rest joined and
\* decrypted, the plaintext split on DELIMITER
decodeToken(token) ==
  LET parts == Split(token, UNDERSCORE)
      plain == Decrypt(Join(SubSeq(parts, 3, Len(parts))))
      pieces == Split(plain, DELIMITER)
  IN [tokenType |-> parts[1],
      environment |-> IF Len(parts) >= 2 THEN parts[2] ELSE Undefined,
      plain |-> plain,
      userId |-> pieces[1],
      plainToken |-> IF Len(pieces) >= 2 THEN pieces[2] ELSE Undefined]

\* the mutant of checkToken: the user named by the decrypted payload is
\* attached without asking the TokenStore
checkTokenTrustsPayload(token, cfg) ==
  LET d == decodeToken(token)
      named == {u \in Users \ {0} : ToStr(u) = d.userId}
  IN IF d.plain = DecryptFail
       THEN Outcome("DecryptionError", NoUser, 1, TRUE, FALSE)
     ELSE IF named = {}
       THEN Outcome("InvalidApiToken", NoUser, 1, TRUE, TRUE)
     ELSE Outcome("true", CHOOSE u \in named : TRUE, 1, TRUE, TRUE)

\* lines 187, 196-211: decode the token, look the record up
checkToken(token, cfg) ==
  LET d == decodeToken(token)
      found == findByToken(d.plainToken, d.tokenType, d.userId, cfg, d.environment)
  IN IF d.plain = DecryptFail
       THEN Outcome("DecryptionError", NoUser, 1, TRUE, FALSE)
     ELSE IF found = NoUser
       THEN Outcome("InvalidApiToken", NoUser, 1, TRUE, TRUE)
     ELSE Outcome("true", found, 1, TRUE, TRUE)

\* the mutant of checkOutcome: no early return when a user is attached
checkOutcomeAlwaysQueries(r) ==
  LET token == getAuthHeader(r.authorization, r.input, AuthTypes)
  IN IF token = NoToken
       THEN Outcome("InvalidApiToken", r.user, 1, FALSE, FALSE)
     ELSE IF globalGroup = Unbound
       THEN Outcome("ReferenceError", r.user, 1, FALSE, FALSE)
     ELSE IF globalGroup # r.group
       THEN Outcome("InvalidApiToken", r.user, 1, FALSE, FALSE)
     ELSE checkToken(token, r.group)

\* check(), lines 173-212, on the instance r
checkOutcome(r) ==
  IF r.user # NoUser
    THEN Outcome("true", r.user, 0, FALSE, FALSE)
  ELSE LET token == getAuthHeader(r.authorization, r.input, AuthTypes)
       IN IF token = NoToken
            THEN Outcome("InvalidApiToken", NoUser, 1, FALSE, FALSE)
          \* line 188, `group !== this.group`: evaluating an identifier that
          \* is bound nowhere throws ReferenceError
          ELSE IF globalGroup = Unbound
            THEN Outcome("ReferenceError", NoUser, 1, FALSE, FALSE)
          ELSE IF globalGroup # r.group
            THEN Outcome("InvalidApiToken", NoUser, 1, FALSE, FALSE)
          ELSE checkToken(token, r.group)

\* the mutant of loginIfCanOutcome: the error of check() is not caught
loginIfCanOutcomeNoCatch(r) ==
  IF r.user # NoUser
    THEN Outcome("true", r.user, 0, FALSE, FALSE)
  ELSE LET token == getAuthHeader(r.authorization, r.input, AuthTypes)
           c == checkOutcome(r)
       IN IF token = NoToken
            THEN Outcome("false", NoUser, 1, FALSE, FALSE)
          ELSE [c EXCEPT !.headerReads = @ + 1]

\* loginIfCan(), lines 229-249, on the instance r: the header is read at
\* line 234 and, when a token is there, again by check() at line 182
loginIfCanOutcome(r) ==
  IF r.user # NoUser
    THEN Outcome("true", r.user, 0, FALSE, FALSE)
  ELSE LET token == getAuthHeader(r.authorization, r.input, AuthTypes)
           c == checkOutcome(r)
       IN IF token = NoToken
            THEN Outcome("false", NoUser, 1, FALSE, FALSE)
          ELSE IF c.result = "true" THEN [c EXCEPT !.headerReads = @ + 1]
          ELSE [c EXCEPT !.result = "false", !.headerReads = @ + 1]

(***************************************************************************)
(* The wire format on its own                                              *)
(***************************************************************************)
MaxPlainLen == 2

\* plain tokens: strings of hexadecimal digits, as uuid.v4() without '-'
RECURSIVE HexStrings(_)
HexStrings(n) ==
  IF n = 0 THEN {<<>>}
  ELSE {s \o <<c>> : s \in HexStrings(n - 1), c \in {"a", "b"}}

PlainTokens == UNION {HexStrings(n) : n \in 1..MaxPlainLen}

\* non-empty token types, with and without the separator of the wire format
CodecTypes == {<<"a">>, <<"b">>, <<"a", "_", "b">>}

\* non-empty environments without '_', the ones generate() accepts
CodecEnvironments == {<<"a">>, <<"b">>}

NoDecoded == [tokenType |-> Undefined, environment |-> Undefined,
              plain |-> Undefined, userId |-> Undefined, plainToken |-> Undefined]

NoCodec == [phase |-> "none", userId |-> 0, plainToken |-> <<>>,
            tokenType |-> <<>>, environment |-> <<>>,
            token |-> NoToken, decoded |-> NoDecoded]

\* lines 144-145 applied to the input
encode ==
  /\ codec.phase = "input"
  /\ codec' = [codec EXCEPT
       !.phase = "encoded",
       !.token = WireToken(codec.userId, codec.plainToken,
                           codec.tokenType, codec.environment)]
  /\ UNCHANGED <<sessVars, client, globalGroup, store, uuids, genCalls, gen, genResult, returned,
                 reqs, req, last>>

\* lines 187 and 197 applied to the wire token
decode ==
  /\ codec.phase = "encoded"
  /\ codec' = [codec EXCEPT !.phase = "decoded", !.decoded = decodeToken(codec.token)]
  /\ UNCHANGED <<sessVars, client, globalGroup, store, uuids, genCalls, gen, genResult, returned,
                 reqs, req, last>>

(***************************************************************************)
(* What a client can present                                               *)
(***************************************************************************)
\* one character of a ciphertext changed into another one
Flip(c) ==
  IF c = "a" THEN "b" ELSE IF c = "b" THEN "a"
  ELSE IF c = "1" THEN "2" ELSE IF c = "2" THEN "1"
  ELSE IF c = ":" THEN "~" ELSE IF c = "~" THEN ":"
  ELSE "a"

\* the wire token w.token with the first character of its ciphertext changed
Tampered(w) ==
  LET i == Len(w.tokenType) + Len(w.environment) + 3
  IN [w.token EXCEPT ![i] = Flip(w.token[i])]

\* the wire token w.token with its environment segment rewritten to e
Relabelled(w, e) ==
  LET i == Len(w.tokenType) + Len(w.environment) + 3
  IN w.tokenType \o UNDERSCORE \o e \o UNDERSCORE \o SubSeq(w.token, i, Len(w.token))

\* tokens that were never issued: fewer than three segments, and a
\* ciphertext whose plaintext has no DELIMITER
Crafted ==
  {<<"a", "_", "a">>, <<"a", "_", "a", "_">> \o Encrypt(<<"a">>)}

Presentable ==
  {NoToken} \cup Crafted
    \cup {w.token : w \in returned}
    \cup {Tampered(w) : w \in returned}
    \cup {Relabelled(w, <<"b">>) : w \in returned}

\* the ways a request carries the token t
Presentations(t) ==
  IF t = NoToken THEN {[authorization |-> NoHeader, input |-> NoToken]}
  ELSE {[authorization |-> Authorization("Bearer", t), input |-> NoToken],
        [authorization |-> Authorization("token", t), input |-> NoToken],
        [authorization |-> Authorization("Basic", t), input |-> NoToken],
        [authorization |-> NoHeader, input |-> t]}

(***************************************************************************)
(* Actions on the request                                                  *)
(***************************************************************************)
NoCall == [op |-> "none", userBefore |-> NoUser]
            @@ Outcome("none", NoUser, 0, FALSE, FALSE)

\* a new request arrives: a new ApiScheme instance, configured with the
\* group cfg, with no user attached
NewRequest(cfg, t, p) ==
  /\ reqs < MaxReqs
  /\ reqs' = reqs + 1
  /\ req' = [group |-> cfg, authorization |-> p.authorization, input |-> p.input,
             user |-> NoUser, calls |-> 0, hits |-> 0]
  /\ last' = NoCall
  /\ UNCHANGED <<sessVars, client, codec, globalGroup, store, uuids, genCalls, gen, genResult, returned>>

\* the mutant of Call: a token is good for one successful lookup, its record
\* is deleted when the lookup has returned the user
CallConsuming(op, o) ==
  /\ reqs > 0
  /\ req.calls < MaxCalls
  /\ req' = [req EXCEPT !.user = o.user,
                        !.calls = @ + 1,
                        !.hits = IF o.queried /\ o.result = "true" THEN @ + 1 ELSE @]
  /\ last' = [op |-> op, userBefore |-> req.user] @@ o
  /\ store' = IF o.queried /\ o.result = "true"
                THEN {r \in store : r.user # o.user} ELSE store
  /\ UNCHANGED <<sessVars, client, codec, globalGroup, uuids, genCalls, gen, genResult,
                 returned, reqs>>

\* the request handler calls op, whose outcome is o
Call(op, o) ==
  /\ reqs > 0
  /\ req.calls < MaxCalls
  /\ req' = [req EXCEPT !.user = o.user,
                        !.calls = @ + 1,
                        !.hits = IF o.queried /\ o.result = "true" THEN @ + 1 ELSE @]
  /\ last' = [op |-> op, userBefore |-> req.user] @@ o
  /\ UNCHANGED <<sessVars, client, codec, globalGroup, store, uuids, genCalls, gen, genResult,
                 returned, reqs>>

check == Call("check", checkOutcome(req))

loginIfCan == Call("loginIfCan", loginIfCanOutcome(req))

\* listTokensForUser(user), lines 261-271: [] for a null user, else the
\* records listTokens(user, 'api_token') returns, each with its token
\* encrypted
listTokensForUser(user) ==
  /\ reqs > 0
  /\ req.calls < MaxCalls
  /\ req' = [req EXCEPT !.calls = @ + 1]
  /\ last' = [op |-> "listTokensForUser", userBefore |-> req.user, arg |-> user,
              listed |-> IF user = Null THEN {}
                         ELSE {[r EXCEPT !.token = Encrypt(r.token)] :
                                 r \in listTokens(store, user, ListedTokenType)}]
               @@ Outcome("listed", req.user, 0, FALSE, user # Null)
  /\ UNCHANGED <<sessVars, client, codec, globalGroup, store, uuids, genCalls, gen, genResult,
                 returned, reqs>>

(***************************************************************************)
(* SessionAuthenticator: the session driver declared by                    *)
(* SessionDriverContract and the provider declared by ProvidersContract    *)
(* (src/adonis-typings/auth.ts).  The repository holds their declarations  *)
(* only; their behaviour is modelled from spec.md sections 4.3, 4.4 and 5. *)
(***************************************************************************)
MaxSessReqs == 3
MaxSessCalls == 2
MaxTokens == 3

\* the users the provider knows, by id (and uid)
Accounts == {1}

\* an id no user has: an unknown uid, or the id of a session whose user
\* has been deleted
Stale == 3

\* no remember-me token
NoRemember == 0

\* the remember cookie: the user id and the token, or nothing
NoCookie == [uid |-> 0, token |-> 0]

\* at most two requests are in progress at a time
Slots == {1, 2}

\* ProvidersContract.findById / findByUid: the user, NoUser for UserNotFound
findById(id) == IF id \in Accounts THEN id ELSE NoUser

findByUid(uid) == IF uid \in Accounts THEN uid ELSE NoUser

\* ProvidersContract.findByToken(userId, token) of the remember-me token
findByRememberToken(rem, userId, token) ==
  IF userId \in Accounts /\ token # NoRemember /\ rem[userId] = token
  THEN userId ELSE NoUser

\* the mutant of rotationAccepted: updateRememberMeToken writes whatever
\* the stored token is by now (last writer wins)
rotationAcceptedAlways(rem, userId, expected) == userId \in Accounts

\* updateRememberMeToken(wrapper) as section 5 requires it of the provider:
\* a compare-and-swap, accepted when the stored token is still the one
\* that was found
rotationAccepted(rem, userId, expected) ==
  userId \in Accounts /\ rem[userId] = expected

AuthenticationFailed == "AuthenticationFailedError"
UserNotFound == "UserNotFoundError"

\* SessionState at the start of a request (Unauthenticated): SessionState
\* of spec.md section 3, the session identifier and the remember cookie of
\* the request, and the bookkeeping of its calls
Fresh ==
  [phase |-> "none", session |-> 0, cookie |-> NoCookie,
   presented |-> NoCookie, presentedAs |-> "none",
   user |-> NoUser, isGuest |-> TRUE, isLoggedIn |-> FALSE,
   isAuthenticated |-> FALSE, authenticationAttempted |-> FALSE,
   isLoggedOut |-> FALSE, viaRemember |-> FALSE,
   outcome |-> "none", path |-> "none", pc |-> "idle", pending |-> "none",
   calls |-> 0, auths |-> 0, lookups |-> 0, rotations |-> 0,
   op |-> "none", result |-> "none"]

\* the mutant of LoggedIn: isGuest is left as it was
LoggedInStillGuest(r, user, via) ==
  [r EXCEPT !.user = user, !.isLoggedIn = TRUE,
            !.isAuthenticated = TRUE, !.viaRemember = via]

\* Result: LoggedIn, isAuthenticated = true, viaRemember = via
LoggedIn(r, user, via) ==
  [r EXCEPT !.user = user, !.isGuest = FALSE, !.isLoggedIn = TRUE,
            !.isAuthenticated = TRUE, !.viaRemember = via]

\* the mutant of Guest: isAuthenticated is left as it was
GuestStillAuthenticated(r) ==
  [r EXCEPT !.user = NoUser, !.isGuest = TRUE, !.isLoggedIn = FALSE,
            !.viaRemember = FALSE]

\* Result: Guest
Guest(r) ==
  [r EXCEPT !.user = NoUser, !.isGuest = TRUE, !.isLoggedIn = FALSE,
            !.isAuthenticated = FALSE, !.viaRemember = FALSE]

\* a call of the request has ended with the result; op tells authenticate()
\* and check() from the other calls, auths counts them
Called(r, op, result) ==
  [r EXCEPT !.calls = @ + 1,
            !.auths = IF op \in {"authenticate", "check"} THEN @ + 1 ELSE @,
            !.op = IF op \in {"authenticate", "check"} THEN op ELSE "other",
            !.result = result]

\* what authenticate() (raises) and check() (a boolean) make of an outcome
ResultOf(op, outcome) ==
  IF op = "check" THEN (IF outcome = "ok" THEN "true" ELSE "false") ELSE outcome

\* the cookies a client can send: none, or any token ever issued, with the
\* id of a user or an id that no user has
Cookies ==
  {NoCookie} \cup {[uid |-> u, token |-> t] : u \in Accounts \cup {Stale},
                                             t \in 1..tokens}

\* what the cookie of a new request is: the token stored for its user
\* ("valid", or "kept" after a logout that did not recycle it), a stored
\* token under the id of another user ("foreign"), or a token that is stored no more ("rotated",
\* "recycled", "replaced")
PresentedAs(cookie) ==
  IF cookie = NoCookie THEN "none"
  ELSE IF cookie.uid \in Accounts /\ remember[cookie.uid] = cookie.token
    THEN history[cookie.token]
  ELSE IF history[cookie.token] \in {"valid", "kept"} THEN "foreign"
  ELSE history[cookie.token]

\* a request arrives in a free slot with a session identifier and a remember
\* cookie; the request that was in the slot has ended
StartRequest(s, session, cookie) ==
  /\ started < MaxSessReqs
  /\ sreq[s].pc = "idle"
  /\ started' = started + 1
  /\ sreq' = [sreq EXCEPT ![s] =
       [Fresh EXCEPT !.phase = "open", !.session = session, !.cookie = cookie,
                     !.presented = cookie,
                     !.presentedAs = PresentedAs(cookie)]]
  /\ UNCHANGED <<apiVars, remember, tokens, history, sessions>>

\* history with the token marked, when there is a token
Mark(h, token, what) ==
  IF token = NoRemember THEN h ELSE [h EXCEPT ![token] = what]

\* the request in slot s can make a call
Open(s) ==
  /\ sreq[s].phase = "open"
  /\ sreq[s].pc = "idle"
  /\ sreq[s].calls < MaxSessCalls

\* login(user, remember) as the last step of op: the session identifier is
\* bound to the user's id; with remember, a new token is issued, persisted
\* through updateRememberMeToken and put in the remember cookie
loginAs(s, user, rem, op) ==
  LET r == sreq[s]
      new == tokens + 1
      old == remember[user]
  IN /\ rem => tokens < MaxTokens
     /\ sessions' = sessions \cup {user}
     /\ IF rem
        THEN /\ tokens' = new
             /\ remember' = [remember EXCEPT ![user] = new]
             /\ history' = Mark(Mark(history, old, "replaced"), new, "valid")
        ELSE UNCHANGED <<tokens, remember, history>>
     /\ sreq' = [sreq EXCEPT ![s] =
          Called([LoggedIn(r, user, FALSE) EXCEPT
                    !.session = user,
                    !.cookie = IF rem THEN [uid |-> user, token |-> new] ELSE @],
                 op, "ok")]
     /\ UNCHANGED <<apiVars, started>>

\* a call that raises before it changes anything
raises(s, op, error) ==
  /\ sreq' = [sreq EXCEPT ![s] = Called(sreq[s], op, error)]
  /\ UNCHANGED <<apiVars, remember, tokens, history, sessions, started>>

login(s, user, rem) == Open(s) /\ loginAs(s, user, rem, "login")

\* attempt(uid, password, remember): verify, then login
sessionAttempt(s, uid, password, rem) ==
  /\ Open(s)
  /\ IF findByUid(uid) = NoUser \/ password # "right"
     THEN raises(s, "attempt", AuthenticationFailed)
     ELSE loginAs(s, findByUid(uid), rem, "attempt")

\* loginViaId(id, remember): resolve by id, then login
loginViaId(s, id, rem) ==
  /\ Open(s)
  /\ IF findById(id) = NoUser
     THEN raises(s, "loginViaId", UserNotFound)
     ELSE loginAs(s, findById(id), rem, "loginViaId")

\* the authenticationAttempted guard of authenticate() and check()
alreadyAttemptedNever(r) == FALSE

alreadyAttempted(r) == r.authenticationAttempted

\* the token a rotation persists and puts in the cookie: the newly issued
\* one, never the one that was found
rotatedKeeps(found, fresh) == found

rotated(found, fresh) == fresh

\* authenticate() / check() up to the first await: the cached outcome when
\* authentication was attempted; else (a) the session identifier through
\* findById, (b) the remember cookie through findByToken, (c) Guest
resolve(s, op) ==
  LET r == sreq[s]
      a == [r EXCEPT !.authenticationAttempted = TRUE]
      byId == findById(r.session)
      byToken == findByRememberToken(remember, r.cookie.uid, r.cookie.token)
      fail(x, path) ==
        Called([Guest(x) EXCEPT !.outcome = AuthenticationFailed, !.path = path],
               op, ResultOf(op, AuthenticationFailed))
  IN /\ Open(s)
     /\ sreq' = [sreq EXCEPT ![s] =
          IF alreadyAttempted(r)
            THEN Called(r, op, ResultOf(op, r.outcome))
          ELSE IF r.session # 0
            THEN IF byId # NoUser
                 THEN Called([LoggedIn(a, byId, FALSE) EXCEPT
                                !.outcome = "ok", !.path = "session",
                                !.lookups = @ + 1],
                             op, ResultOf(op, "ok"))
                 ELSE fail([a EXCEPT !.lookups = @ + 1], "session")
          ELSE IF r.cookie # NoCookie
            THEN IF byToken # NoUser
                 THEN [a EXCEPT !.lookups = @ + 1, !.path = "remember",
                                !.pc = "rotating", !.pending = op,
                                !.calls = @ + 1, !.auths = @ + 1]
                 ELSE fail([a EXCEPT !.lookups = @ + 1], "remember")
          ELSE fail(a, "nothing")]
     /\ UNCHANGED <<apiVars, remember, tokens, history, sessions, started>>

authenticate(s) == resolve(s, "authenticate")

sessionCheck(s) == resolve(s, "check")

\* the rest of branch (b), after findByToken has resolved: the rotation
\* through updateRememberMeToken; the request whose rotation the provider
\* refuses is demoted to Guest
rotate(s) ==
  LET r == sreq[s]
      uid == r.cookie.uid
      found == r.cookie.token
      new == rotated(found, tokens + 1)
  IN /\ r.phase = "open"
     /\ r.pc = "rotating"
     /\ IF rotationAccepted(remember, uid, found)
        THEN /\ tokens < MaxTokens
             /\ tokens' = tokens + 1
             /\ remember' = [remember EXCEPT ![uid] = new]
             /\ history' = Mark(Mark(history, found, "rotated"), new, "valid")
             /\ sreq' = [sreq EXCEPT ![s] =
                  [LoggedIn(r, uid, TRUE) EXCEPT
                     !.cookie = [uid |-> uid, token |-> new],
                     !.rotations = @ + 1, !.outcome = "ok",
                     !.pc = "idle", !.pending = "none",
                     !.op = r.pending, !.result = ResultOf(r.pending, "ok")]]
        ELSE /\ sreq' = [sreq EXCEPT ![s] =
                  [Guest(r) EXCEPT
                     !.outcome = AuthenticationFailed, !.path = "raced",
                     !.pc = "idle", !.pending = "none",
                     !.op = r.pending,
                     !.result = ResultOf(r.pending, AuthenticationFailed)]]
             /\ UNCHANGED <<tokens, remember, history>>
     /\ UNCHANGED <<apiVars, sessions, started>>

\* whether logout(recycleRememberToken) invalidates the stored token
recyclesNever(recycle) == FALSE

recycles(recycle) == recycle

\* logout(recycleRememberToken): the session identifier and the remember
\* cookie are cleared; the stored token of the user is invalidated when the
\* token is recycled
logout(s, recycle) ==
  LET r == sreq[s]
      u == r.user
      old == IF u = NoUser THEN NoRemember ELSE remember[u]
  IN /\ Open(s)
     /\ sessions' = sessions \ {r.session}
     /\ remember' = IF u # NoUser /\ recycles(recycle)
                   THEN [remember EXCEPT ![u] = NoRemember]
                   ELSE remember
     /\ history' = Mark(history, old, IF recycle THEN "recycled" ELSE "kept")
     /\ sreq' = [sreq EXCEPT ![s] =
          Called([Guest(r) EXCEPT !.session = 0, !.cookie = NoCookie,
                                  !.isLoggedOut = TRUE],
                 "logout", "ok")]
     /\ UNCHANGED <<apiVars, tokens, started>>

InitSession ==
  /\ remember = [u \in Accounts |-> NoRemember]
  /\ tokens = 0
  /\ history = [t \in 1..MaxTokens |-> "unissued"]
  /\ sessions = {}
  /\ started = 0
  /\ sreq = [s \in Slots |-> Fresh]

\* every operation of the authenticator, one request after the other
NextSession ==
  \/ \E session \in {0, Stale} \cup sessions, cookie \in Cookies :
       StartRequest(1, session, cookie)
  \/ \E user \in Accounts, rem \in BOOLEAN : login(1, user, rem)
  \/ \E uid \in Accounts \cup {Stale}, password \in Passwords, rem \in BOOLEAN :
       sessionAttempt(1, uid, password, rem)
  \/ \E id \in Accounts \cup {Stale}, rem \in BOOLEAN : loginViaId(1, id, rem)
  \/ authenticate(1)
  \/ sessionCheck(1)
  \/ rotate(1)
  \/ \E recycle \in BOOLEAN : logout(1, recycle)

\* requests in progress at the same time, carrying a remember cookie and no
\* session identifier: each step of a request is taken between the steps of
\* the other one
NextRace ==
  \/ \E s \in Slots, cookie \in Cookies : StartRequest(s, 0, cookie)
  \/ \E s \in Slots, user \in Accounts : login(s, user, TRUE)
  \/ \E s \in Slots : authenticate(s)
  \/ \E s \in Slots : sessionCheck(s)
  \/ \E s \in Slots : rotate(s)

(***************************************************************************)
(* Specification                                                           *)
(***************************************************************************)
\* Nothing in Api.js binds `group`: in a host that defines no such global
\* the identifier is Unbound, which is the case of a plain Node process; a
\* host that defines one is represented by the value <<"g">>.
InitApi ==
  /\ globalGroup \in {Unbound, <<"g">>}
  /\ store = {}
  /\ uuids = 0
  /\ genCalls = 0
  /\ gen = Idle
  /\ genResult = [Ended(NoError, NoToken) EXCEPT !.status = "none"]
  /\ returned = {}
  /\ reqs = 0
  /\ req = [group |-> NoGroup, authorization |-> NoHeader, input |-> NoToken,
            user |-> NoUser, calls |-> 0, hits |-> 0]
  /\ last = NoCall
  /\ client = FALSE

Init == InitApi /\ InitSession /\ codec = NoCodec

Next ==
  \/ \E user \in Users, tokenType \in TokenTypes, environment \in Environments,
        cfg \in Groups \cup {NoGroup} :
       \E columns \in Columns(cfg, environment) :
         generate(user, tokenType, environment, cfg, columns) /\ client' = client
  \/ generateSaved
  \/ generateSaveFailed
  \/ \E cfg \in Groups \cup {NoGroup}, t \in Presentable :
       \E p \in Presentations(t) : NewRequest(cfg, t, p)
  \/ check
  \/ loginIfCan

Spec == Init /\ [][Next]_vars

(***************************************************************************)
(* Every operation of the scheme, on requests that carry their token as    *)
(* clientLogin() sets it: "Authorization: Bearer <token>"                  *)
(***************************************************************************)
NextTokens ==
  \/ \E user \in Users, tokenType \in TokenTypes, environment \in Environments,
        cfg \in Groups \cup {NoGroup} :
       \E columns \in Columns(cfg, environment) :
         generate(user, tokenType, environment, cfg, columns) /\ client' = client
  \/ generateSaved
  \/ generateSaveFailed
  \/ \E uid \in Uids, password \in Passwords, cfg \in Groups \cup {NoGroup} :
       attempt(uid, password, cfg)
  \/ \E user \in Users, cfg \in Groups \cup {NoGroup} : clientLoginUser(user, cfg)
  \/ \E token \in {w.token : w \in returned} \cup Crafted : clientLoginToken(token)
  \/ \E cfg \in Groups \cup {NoGroup}, t \in Presentable :
       NewRequest(cfg, t, IF t = NoToken
                            THEN [authorization |-> NoHeader, input |-> NoToken]
                            ELSE [authorization |-> Authorization("Bearer", t),
                                  input |-> NoToken])
  \/ check
  \/ loginIfCan
  \/ \E user \in Users \cup {Null} : listTokensForUser(user)

SpecTokens == Init /\ [][NextTokens]_vars

(***************************************************************************)
(* The session authenticator and its provider alone                        *)
(***************************************************************************)
\* the token scheme at rest, in a host that binds no global `group`
InitUnbound == Init /\ globalGroup = Unbound

SpecSession == InitUnbound /\ [][NextSession]_vars

SpecRace == InitUnbound /\ [][NextRace]_vars

(***************************************************************************)
(* The wire format alone: every input is composed as lines                 *)
(* 144-145 compose it and taken apart as lines 187 and 197 take it apart   *)
(***************************************************************************)
InitCodec ==
  /\ InitApi
  /\ InitSession
  /\ \E userId \in Users \ {0}, plainToken \in PlainTokens,
        tokenType \in CodecTypes, environment \in CodecEnvironments :
       codec = [phase |-> "input", userId |-> userId, plainToken |-> plainToken,
                tokenType |-> tokenType, environment |-> environment,
                token |-> NoToken, decoded |-> NoDecoded]

NextCodec == encode \/ decode

SpecCodec == InitCodec /\ [][NextCodec]_vars

(***************************************************************************)
(* Claims                                                                  *)
(***************************************************************************)
\* the token the current request presents
Presented == getAuthHeader(req.authorization, req.input, AuthTypes)

\* the record that generate() saved for the issued token w
RecordOf(w) ==
  {r \in store : r.token = w.plainToken /\ r.user = w.user /\ r.type = w.tokenType}

\* C1: a wire token returned by generate(), presented as
\* "Authorization: Bearer <token>" on a request with no attached user to the
\* authenticator of the group that issued it, makes check() return true and
\* attach the token's user, as long as its record is in the TokenStore.
C1_IssuedTokenPassesCheck ==
  \A w \in returned :
    ( /\ last.op = "check"
      /\ last.userBefore = NoUser
      /\ req.authorization = Authorization("Bearer", w.token)
      /\ req.group = w.group
      /\ RecordOf(w) # {} )
    => (last.result = "true" /\ req.user = w.user)

\* C2: check() fails with InvalidApiToken whenever the presented token was
\* issued for a group other than the authenticator's configured group.
C2_GroupMismatchIsInvalidApiToken ==
  \A w \in returned :
    ( /\ last.op = "check"
      /\ last.userBefore = NoUser
      /\ Presented = w.token
      /\ req.group # w.group )
    => last.result = "InvalidApiToken"

\* C3: on a request with no attached user, every failure of check() is the
\* error InvalidApiToken and no other error.
C3_EveryFailureIsInvalidApiToken ==
  (last.op = "check" /\ last.userBefore = NoUser /\ last.result # "true")
    => last.result = "InvalidApiToken"

\* C4: splitting and decrypting, as check() does, the wire token that
\* generate() composes recovers the tokenType, the environment, the userId
\* and the plainToken it was composed from.
C4_WireFormatRoundTrip ==
  codec.phase = "decoded"
    => /\ codec.decoded.tokenType = codec.tokenType
       /\ codec.decoded.environment = codec.environment
       /\ codec.decoded.userId = ToStr(codec.userId)
       /\ codec.decoded.plainToken = codec.plainToken

\* C5: a wire token is returned to a caller only after its record exists in
\* the TokenStore; a generate() call that threw (saveToken rejected, or the
\* input was rejected) built and returned no wire token.
C5_SavedBeforeReturned ==
  /\ \A w \in returned : RecordOf(w) # {}
  /\ genResult.status = "returned" =>
       \E w \in returned : w.token = genResult.token /\ RecordOf(w) # {}
  /\ genResult.status = "threw" => genResult.token = NoToken
  /\ gen.pc = "saving" => \A w \in returned : w.plainToken # gen.plainToken

\* C5 witness: generate() has returned a wire token whose record is saved
C5_Witness ==
  /\ genResult.status = "returned"
  /\ \E w \in returned : w.token = genResult.token /\ RecordOf(w) # {}

\* the inputs generate() has to reject
InvalidInput(user, tokenType, environment, cfg) ==
  \/ Len(tokenType) = 0
  \/ cfg = NoGroup
  \/ Len(environment) = 0
  \/ \E i \in 1..Len(environment) : environment[i] = "_"
  \/ user = 0

\* the exception classes of the configuration failures (lines 113-125)
ConfigurationErrorClasses == {RuntimeException}

PrimaryKeyMissing == "Primary key value is missing for user"

\* C6 (as amended): generate() rejects an empty tokenType, an unset group, an
\* empty environment, an environment with '_' and a user without a primary
\* key before any effect; every one of them throws a RuntimeException (the
\* missing primary key too, with a message of its own), no record is saved,
\* no call is left in flight and no token is returned.
C6_InvalidInputRejectedBeforeAnyEffect ==
  [][genCalls' # genCalls =>
     \A user \in Users, tokenType \in TokenTypes, environment \in Environments,
        cfg \in Groups \cup {NoGroup} :
       \A columns \in Columns(cfg, environment) :
         ( /\ generate(user, tokenType, environment, cfg, columns)
           /\ InvalidInput(user, tokenType, environment, cfg) )
         => /\ genResult'.status = "threw"
            /\ genResult'.error.class = RuntimeException
            /\ genResult'.token = NoToken
            /\ (genResult'.error.message = PrimaryKeyMissing) <=>
                 ( /\ user = 0 /\ Len(tokenType) > 0 /\ cfg # NoGroup
                   /\ Len(environment) > 0
                   /\ \A i \in 1..Len(environment) : environment[i] # "_" )
            /\ store' = store
            /\ returned' = returned
            /\ gen'.pc = "idle"]_vars

\* C6 witness: generate() threw for a user without a primary key
C6_Witness ==
  /\ genResult.status = "threw"
  /\ genResult.error.class = RuntimeException
  /\ genResult.error.message = PrimaryKeyMissing
  /\ gen.pc = "idle"

\* C6 (as claimed): the error of a missing primary key is of another category
\* than the configuration errors.
C6_MissingIdentityIsDistinctCategory ==
  (genResult.status = "threw" /\ genResult.error.message = PrimaryKeyMissing)
    => genResult.error.class \notin ConfigurationErrorClasses

\* C7: a check() on a request that has a user attached returns true without
\* reading the header, decrypting or querying the TokenStore, and leaves the
\* user as it was; no request sees more than one successful findByToken.
C7_CheckIdempotent ==
  /\ (last.op = "check" /\ last.userBefore # NoUser) =>
       /\ last.result = "true"
       /\ last.headerReads = 0
       /\ ~last.decrypted
       /\ ~last.queried
       /\ req.user = last.userBefore
  /\ req.hits <= 1

\* C7 witness: check() was called on a request whose user an earlier call
\* of the request had attached
C7_Witness ==
  /\ last.op = "check"
  /\ last.userBefore # NoUser
  /\ req.hits = 1
  /\ req.calls = 2

\* the current request presents an issued token with one character of its
\* ciphertext changed
PresentsTampered == \E w \in returned : Presented = Tampered(w)

\* C8: loginIfCan() returns a boolean and never throws; with no token
\* presented it returns false after one read of the header, without the
\* second read, the decrypt and the lookup of check(); for a tampered
\* ciphertext it returns false.
C8_LoginIfCanNeverRaises ==
  last.op = "loginIfCan" =>
    /\ last.result \in {"true", "false"}
    /\ (last.userBefore = NoUser /\ Presented = NoToken) =>
         /\ last.result = "false"
         /\ last.headerReads = 1
         /\ ~last.decrypted
         /\ ~last.queried
    /\ (last.userBefore = NoUser /\ PresentsTampered) =>
         (last.result = "false" /\ req.user = NoUser)

\* C8 witness: loginIfCan() returned false for a tampered token that it
\* tried to decrypt
C8_Witness ==
  /\ last.op = "loginIfCan"
  /\ PresentsTampered
  /\ last.decrypted
  /\ last.result = "false"

\* C9: loginIfCan() returns true and attaches the token's user on a request
\* that presents a token returned by generate().
C9_LoginIfCanAcceptsIssuedToken ==
  \A w \in returned :
    ( /\ last.op = "loginIfCan"
      /\ last.userBefore = NoUser
      /\ Presented = w.token
      /\ req.group = w.group
      /\ RecordOf(w) # {} )
    => (last.result = "true" /\ req.user = w.user)

\* C10: the record generate() persists carries the authenticator's group and
\* the requested environment, and a token is accepted only by an
\* authenticator of the group, and as a token of the environment, it was
\* issued for.
C10_TokensScopedByGroupAndEnvironment ==
  /\ \A w \in returned :
       \E r \in RecordOf(w) : r.group = w.group /\ r.environment = w.environment
  /\ \A w \in returned :
       ( /\ last.op \in {"check", "loginIfCan"}
         /\ last.userBefore = NoUser
         /\ last.result = "true"
         /\ decodeToken(Presented).plainToken = w.plainToken )
       => /\ req.group = w.group
          /\ decodeToken(Presented).environment = w.environment

\* the successful generate() calls made for the user: the tokens returned
IssuedFor(user) == {w \in returned : w.user = user}

\* C11: listTokensForUser(null) returns an empty sequence without querying
\* the TokenStore; listTokensForUser(user) returns as many entries as there
\* were successful generate() calls for the user, whatever their tokenType.
C11_ListCountsGeneratedTokens ==
  [][last'.op = "listTokensForUser" =>
       \A user \in Users \cup {Null} :
         listTokensForUser(user) =>
           /\ user = Null => (last'.listed = {} /\ ~last'.queried)
           /\ user \in Users \ {0} =>
                Cardinality(last'.listed) = Cardinality(IssuedFor(user))]_vars

\* the first authenticate() / check() of the request in slot s took
\* branch (b), the remember cookie, and has ended
ByCookie(s) == sreq[s].path \in {"remember", "raced"} /\ sreq[s].pc = "idle"

\* C12: a request that carries only the remember cookie that login(user,
\* remember = true) or a rotation has set, and calls authenticate(), ends
\* LoggedIn with isAuthenticated and viaRemember; the token stored for the
\* user and put in the cookie differs from the one presented; a token that
\* was rotated out is stored for no user, and a later request that presents
\* it fails and stays Guest.
C12_RememberTokenIsSingleUse ==
  LET r == sreq[1]
  IN /\ (ByCookie(1) /\ r.calls = 1 /\ r.presentedAs \in {"valid", "kept"}) =>
          /\ r.isLoggedIn /\ r.isAuthenticated /\ r.viaRemember
          /\ r.result = ResultOf(r.op, "ok")
          /\ r.cookie.token # r.presented.token
          /\ remember[r.user] = r.cookie.token
          /\ history[r.presented.token] = "rotated"
     /\ \A t \in 1..tokens :
          history[t] = "rotated" => \A u \in Accounts : remember[u] # t
     /\ (ByCookie(1) /\ r.presentedAs = "rotated") =>
          /\ r.outcome = AuthenticationFailed
          /\ ~r.viaRemember
          /\ r.rotations = 0
          /\ r.calls = 1 => (r.isGuest /\ r.result = ResultOf(r.op, AuthenticationFailed))

\* C12 witness: a request presented a token that an earlier request had
\* rotated out, and its authenticate() failed
C12_Witness ==
  /\ ByCookie(1)
  /\ sreq[1].presentedAs = "rotated"
  /\ sreq[1].outcome = AuthenticationFailed
  /\ sreq[1].isGuest

C14_AtMostOneRotationWins ==
  \A s1, s2 \in Slots :
    ( /\ s1 # s2
      /\ sreq[s1].presented # NoCookie
      /\ sreq[s1].presented = sreq[s2].presented
      /\ sreq[s1].viaRemember )
    => /\ ~sreq[s2].viaRemember
       /\ ByCookie(s2) =>
            /\ sreq[s2].outcome = AuthenticationFailed
            /\ sreq[s2].rotations = 0
            /\ sreq[s2].calls = 1 => sreq[s2].isGuest

\* C14 witness: both requests found the token, one rotated it and the
\* rotation of the other was refused
C14_Witness ==
  \E s1, s2 \in Slots :
    /\ sreq[s1].presented = sreq[s2].presented
    /\ sreq[s1].viaRemember
    /\ sreq[s2].path = "raced"
    /\ sreq[s2].isGuest

\* C15: within a request, once authenticationAttempted is set an
\* authenticate() or check() returns the outcome of the first one, and the
\* request makes no further provider lookup and no further rotation.
C15_AuthenticateOncePerRequest ==
  LET r == sreq[1]
  IN /\ r.authenticationAttempted = (r.auths > 0)
     /\ r.lookups <= 1
     /\ r.rotations <= 1
     /\ r.path \in {"none", "nothing"} => (r.lookups = 0 /\ r.rotations = 0)
     /\ r.path = "session" => (r.lookups = 1 /\ r.rotations = 0)
     /\ (r.op \in {"authenticate", "check"} /\ r.pc = "idle") =>
          r.result = ResultOf(r.op, r.outcome)

\* C15 witness: the second authenticate() / check() of a request whose
\* first one had rotated the remember token
C15_Witness ==
  /\ sreq[1].auths = 2
  /\ sreq[1].lookups = 1
  /\ sreq[1].rotations = 1
  /\ sreq[1].pc = "idle"

\* C16: in every state of a request exactly one of isGuest and isLoggedIn
\* is true.
C16_GuestXorLoggedIn ==
  \A s \in Slots : sreq[s].isGuest = ~sreq[s].isLoggedIn

\* C16 witness: the first request logged in with remember and logged out
C16_Witness ==
  /\ started = 1
  /\ tokens = 1
  /\ sreq[1].calls = 2
  /\ sreq[1].isLoggedOut
  /\ sreq[1].isGuest

CheckOfLast == checkOutcome([req EXCEPT !.user = NoUser])

\* C18: loginIfCan() turns into false only the InvalidApiToken (or
\* AuthenticationFailedError) of check(); when check() raises anything else,
\* here the ReferenceError of line 188 or the error of Encryption.decrypt,
\* the caller of loginIfCan() sees that error and not false
C18_OnlyTokenErrorsDowngraded ==
  (/\ last.op = "loginIfCan"
   /\ last.userBefore = NoUser
   /\ Presented # NoToken
   /\ CheckOfLast.result \in {"ReferenceError", "DecryptionError"})
    => last.result = CheckOfLast.result


\* a step of check(), loginIfCan() or listTokensForUser(), or the arrival
\* of a request
RequestStep == req' # req

\* a generate() call, made directly or by attempt() or clientLogin(), ends
\* with this step
GenerateEnds == gen.pc = "saving" /\ gen'.pc = "idle"

\* C19: check() and loginIfCan(), succeeding or failing, leave the set of
\* TokenStore records as it is; the set changes only in the step that ends
\* a successful generate() call (made directly or through attempt() or
\* clientLogin()), which adds exactly one record and removes none, and a
\* generate() call that ends with an error adds none
C19_OnlyGenerateChangesStore ==
  [][/\ RequestStep => store' = store
     /\ store' # store => /\ GenerateEnds
                          /\ genResult'.error = NoError
                          /\ store \subseteq store'
     /\ (GenerateEnds /\ genResult'.error = NoError)
          => Cardinality(store') = Cardinality(store) + 1
     /\ (genResult' # genResult /\ genResult'.error # NoError)
          => store' = store]_vars

\* check() or loginIfCan() has looked a presented token up and returned
\* true while a record generate() saved is in the store
C19_Witness ==
  /\ last.op \in {"check", "loginIfCan"}
  /\ last.queried
  /\ last.result = "true"
  /\ store # {}
  /\ genResult.status \in {"returned", "headerSet"}


\* what the TokenStore st returns for the token the request r presents:
\* findByToken on its (plainToken, tokenType, userId, r.group, environment)
LookedUp(st, r) ==
  LET token == getAuthHeader(r.authorization, r.input, AuthTypes)
      d == decodeToken(token)
      hits == {x \in st : /\ x.token = d.plainToken
                          /\ x.type = d.tokenType
                          /\ ToStr(x.user) = d.userId
                          /\ x.group = r.group
                          /\ x.environment = d.environment}
  IN IF token = NoToken \/ d.plain = DecryptFail \/ hits = {} THEN NoUser
     ELSE (CHOOSE x \in hits : TRUE).user

\* C20: a request has a user attached only if the TokenStore returns that
\* user for the token it presents, under the group the authenticator is
\* configured with; a user gets attached only by a check() or loginIfCan()
\* that returns true; after a check() or loginIfCan() that throws or
\* returns false no user is attached; steps of generate(), attempt(),
\* clientLogin() and listTokensForUser() leave the attached user as it is
C20_AttachedOnlyByLookup ==
  [][/\ req'.user # NoUser => LookedUp(store', req') = req'.user
     /\ (req'.user # req.user /\ req'.user # NoUser)
          => last'.op \in {"check", "loginIfCan"} /\ last'.result = "true"
     /\ (RequestStep /\ last'.op \in {"check", "loginIfCan"} /\ last'.result # "true")
          => req'.user = NoUser
     /\ (gen' # gen \/ genResult' # genResult \/ last'.op = "listTokensForUser")
          => req'.user = req.user]_vars

\* check() or loginIfCan() has attached the user the TokenStore returned
C20_Witness ==
  /\ last.op \in {"check", "loginIfCan"}
  /\ last.userBefore = NoUser
  /\ last.queried
  /\ req.user # NoUser
  /\ req.user = LookedUp(store, req)

==============================================================================
